---- MODULE Spec2Model ----
(***************************************************************************)
(* Model of the analyseLikedVids route of TTdataVizzer:                    *)
(*   src/app/api/analyseLikedVids/route.js  (PUT, validateFormatting,      *)
(*       validateContent, compileHashtags, processBatch, mapOccurences)    *)
(*   src/utils/apiAuth.js                   (checkKey, getHashtags)        *)
(*                                                                         *)
(* Strings the code inspects character by character (the URLs, the api     *)
(* key) are sequences of one-character strings; JSON values are records    *)
(* with a type tag, so that the type tests of the code (Array.isArray,     *)
(* typeof, the coercions of !=) are computed and not assumed.              *)
(***************************************************************************)
EXTENDS Integers, Sequences, FiniteSets, TLC

VARIABLES
    pc,               \* where the PUT handler is: idle, reading, awaiting, done
    request,          \* the body of the request being handled
    uuJson,           \* the parsed payload (route.js:27)
    batches,          \* the value of processBatch(uuJson) (route.js:44)
    calls,            \* one entry per getHashtags invocation issued, in batch order
    compiledResults,  \* the value of mapOccurences(results) (route.js:49)
    response,         \* the Response the handler returned
    firstSettled      \* the invocation that settled first (0: none has yet)

vars == <<pc, request, uuJson, batches, calls, compiledResults, response, firstSettled>>

---------------------------------------------------------------------------
(* Bounds of the model. *)

\* longest urls array of the request bodies of Spec
MaxUrls == 2
\* longest URL list given to processBatch in SpecBatch
MaxPartLen == 41
\* longest URL list of the requests of SpecAgg
MaxAggLen == 11
\* longest sequence of results given to mapOccurences in SpecMap
MaxResults == 3

---------------------------------------------------------------------------
(* Program constants. *)

\* route.js:114  Math.ceil(urls.length / 10)
Fanout == 10
\* route.js:161  slice(0, 5)
TopN == 5

\* route.js:84
tiktokPrefix ==
    <<"h","t","t","p","s",":","/","/","w","w","w",".","t","i","k","t","o","k","v",
      ".","c","o","m","/","s","h","a","r","e","/","v","i","d","e","o","/">>

\* route.js:14-16 and route.js:53
incorrectFormattingMessage == "Incorrect formatting of request: Request Body must have exactly one key 'urls' that maps to an array of strings"
faultyContentMessage == "Urls aren't properly formatted: One or more urls in the request aren't a valid tiktok share-post link"
unauthorizedAccessMessage == "You aren't allowed to use this :("
failedMessage == "Failed to get hashtags"

\* apiAuth.js:11  process.env.API_KEY, a string of the process environment
expectedApiKey == <<"K","1">>

---------------------------------------------------------------------------
(* JSON values, as request.json() and JSON.parse produce them. *)

JVal(t, c, n, i, f) == [type |-> t, chars |-> c, num |-> n, items |-> i, fields |-> f]
JUndefined == JVal("undefined", <<>>, 0, <<>>, <<>>)
JNull      == JVal("null", <<>>, 0, <<>>, <<>>)
JInvalid   == JVal("invalid", <<>>, 0, <<>>, <<>>)  \* a body that is not JSON
JStr(c)    == JVal("string", c, 0, <<>>, <<>>)
JNum(n)    == JVal("number", <<>>, n, <<>>, <<>>)
JArr(i)    == JVal("array", <<>>, 0, i, <<>>)
JObj(f)    == JVal("object", <<>>, 0, <<>>, f)
Field(k, v) == [key |-> k, val |-> v]

\* Object.keys(v) for a value that is not null or undefined
ObjectKeys(v) ==
    CASE v.type = "object" -> [i \in 1..Len(v.fields) |-> v.fields[i].key]
      [] v.type = "array"  -> [i \in 1..Len(v.items) |-> ToString(i - 1)]
      [] v.type = "string" -> [i \in 1..Len(v.chars) |-> ToString(i - 1)]
      [] OTHER             -> <<>>

\* v[k] for a string key k that is not an index
Get(v, k) ==
    IF v.type = "object" /\ \E i \in 1..Len(v.fields) : v.fields[i].key = k
    THEN v.fields[CHOOSE i \in 1..Len(v.fields) : v.fields[i].key = k].val
    ELSE JUndefined

Digit == <<"0","1","2","3","4","5","6","7","8","9">>
IsDigit(c) == \E d \in 1..10 : Digit[d] = c
DigitValue(c) == (CHOOSE d \in 1..10 : Digit[d] = c) - 1

RECURSIVE NumberToString(_)
NumberToString(n) ==
    IF n < 10 THEN <<Digit[n + 1]>>
    ELSE NumberToString(n \div 10) \o <<Digit[(n % 10) + 1]>>

\* Number(s) for a string of decimal digits; NaN (here -1) for the other
\* strings of the model, none of which has blanks, a sign or a point
RECURSIVE DigitsValue(_)
DigitsValue(s) ==
    IF s = <<>> THEN 0
    ELSE 10 * DigitsValue(SubSeq(s, 1, Len(s) - 1)) + DigitValue(s[Len(s)])
StringToNumber(s) ==
    IF \A i \in 1..Len(s) : IsDigit(s[i]) THEN DigitsValue(s) ELSE -1

ObjectObject == <<"[","o","b","j","e","c","t"," ","O","b","j","e","c","t","]">>

\* String(v), with Array.prototype.toString joining the items with ","
RECURSIVE ToStr(_)
ToStr(v) ==
    CASE v.type = "string" -> v.chars
      [] v.type = "number" -> NumberToString(v.num)
      [] v.type = "array"  ->
            IF Len(v.items) = 0 THEN <<>>
            ELSE LET head == v.items[1]
                     first == IF head.type \in {"null", "undefined"} THEN <<>>
                              ELSE ToStr(head)
                 IN IF Len(v.items) = 1 THEN first
                    ELSE first \o <<",">> \o ToStr(JArr(Tail(v.items)))
      [] v.type = "object" -> ObjectObject
      [] OTHER             -> <<>>

\* v == s for a string s: the abstract equality of JavaScript
LooseEqualsString(v, s) ==
    CASE v.type = "string" -> v.chars = s
      [] v.type = "number" -> StringToNumber(s) = v.num
      [] v.type \in {"array", "object"} -> ToStr(v) = s
      [] OTHER -> FALSE

\* str.startsWith(prefix)
StartsWith(str, prefix) ==
    /\ Len(str) >= Len(prefix)
    /\ SubSeq(str, 1, Len(prefix)) = prefix

\* arr.slice(from, to) with 0-based bounds, to clamped to the length
Slice(arr, from, to) ==
    SubSeq(arr, from + 1, IF to > Len(arr) THEN Len(arr) ELSE to)

---------------------------------------------------------------------------
(* src/utils/apiAuth.js: checkKey *)

checkKey(payload) ==
    LET keys == ObjectKeys(payload)
    IN IF Len(keys) = 0 \/ keys[1] # "api_key" THEN FALSE
       ELSE IF ~LooseEqualsString(Get(payload, "api_key"), expectedApiKey) THEN FALSE
       ELSE TRUE

---------------------------------------------------------------------------
(* route.js: the validators *)

validateFormatting(payload) ==
    LET keys == ObjectKeys(payload)
        urlsValue == Get(payload, "urls")
    IN IF Len(keys) # 2 \/ keys[2] # "urls" THEN FALSE
       ELSE IF \/ urlsValue.type # "array"
               \/ ~(\A i \in 1..Len(urlsValue.items) : urlsValue.items[i].type = "string")
            THEN FALSE
       ELSE TRUE

validateContent(payload) ==
    LET urls == Get(payload, "urls").items
    IN \A i \in 1..Len(urls) : StartsWith(urls[i].chars, tiktokPrefix)

---------------------------------------------------------------------------
(* route.js: processBatch *)

\* Math.ceil(n / 10), what a common slip makes of it: floor plus one
BatchSizeFloorPlusOne(n) == (n \div Fanout) + 1

\* Math.floor in place of Math.ceil, with a batch size of at least 1
BatchSizeFloor(n) == IF n \div Fanout = 0 THEN 1 ELSE n \div Fanout

\* Math.ceil(urls.length / 10)
BatchSize(n) == (n + Fanout - 1) \div Fanout

\* the loop with the slice one element short
RECURSIVE ProcessBatchLoopShortSlice(_, _, _, _)
ProcessBatchLoopShortSlice(urls, batchSize, i, subArrays) ==
    IF i < Len(urls)
    THEN ProcessBatchLoopShortSlice(urls, batchSize, i + batchSize,
             Append(subArrays, [urls |-> Slice(urls, i, i + batchSize - 1)]))
    ELSE subArrays

\* for (let i = 0; i < urls.length; i += batchSize) subArrays.push({urls: slice})
RECURSIVE ProcessBatchLoop(_, _, _, _)
ProcessBatchLoop(urls, batchSize, i, subArrays) ==
    IF i < Len(urls)
    THEN ProcessBatchLoop(urls, batchSize, i + batchSize,
             Append(subArrays, [urls |-> Slice(urls, i, i + batchSize)]))
    ELSE subArrays

processBatch(payload) ==
    LET urls == Get(payload, "urls").items
    IN ProcessBatchLoop(urls, BatchSize(Len(urls)), 0, <<>>)

---------------------------------------------------------------------------
(* route.js: mapOccurences.  A Map is the sequence of its entries in        *)
(* insertion order; set() on a key the Map has keeps the entry's place.     *)

MapHas(m, k) == \E i \in 1..Len(m) : m[i].name = k
MapGet(m, k) == m[CHOOSE i \in 1..Len(m) : m[i].name = k].count
MapSet(m, k, c) ==
    IF MapHas(m, k)
    THEN [i \in 1..Len(m) |-> IF m[i].name = k THEN [name |-> k, count |-> c] ELSE m[i]]
    ELSE Append(m, [name |-> k, count |-> c])

\* a count that is set to 1 for a name the map already has
RECURSIVE CountListNoIncrement(_, _)
CountListNoIncrement(m, list) ==
    IF list = <<>> THEN m
    ELSE CountListNoIncrement(MapSet(m, list[1], 1), Tail(list))

\* one pass of an inner loop: for (const x of list) count x
RECURSIVE CountList(_, _)
CountList(m, list) ==
    IF list = <<>> THEN m
    ELSE CountList(IF MapHas(m, list[1])
                   THEN MapSet(m, list[1], MapGet(m, list[1]) + 1)
                   ELSE MapSet(m, list[1], 1),
                   Tail(list))

\* an outer loop that starts at the second entry
RECURSIVE CountHashtagsFrom(_, _, _)
CountHashtagsFrom(m, data, i) ==
    IF i > Len(data) THEN m
    ELSE CountHashtagsFrom(CountList(m, data[i].hashtags), data, i + 1)

CountHashtagsSkipsFirst(m, data) == CountHashtagsFrom(m, data, 2)

\* the outer loop, for the hashtags and for the creators
RECURSIVE CountHashtags(_, _)
CountHashtags(m, data) ==
    IF data = <<>> THEN m
    ELSE CountHashtags(CountList(m, data[1].hashtags), Tail(data))

RECURSIVE CountCreators(_, _)
CountCreators(m, data) ==
    IF data = <<>> THEN m
    ELSE CountCreators(CountList(m, data[1].creators), Tail(data))

\* sort((a, b) => a[1] - b[1]): ascending
InsertByCountAscending(sorted, e) ==
    LET before == Cardinality({i \in 1..Len(sorted) : sorted[i].count <= e.count})
    IN SubSeq(sorted, 1, before) \o <<e>> \o SubSeq(sorted, before + 1, Len(sorted))

\* a sort that puts an entry before the entries of equal count
InsertByCountUnstable(sorted, e) ==
    LET before == Cardinality({i \in 1..Len(sorted) : sorted[i].count > e.count})
    IN SubSeq(sorted, 1, before) \o <<e>> \o SubSeq(sorted, before + 1, Len(sorted))

\* sort((a, b) => b[1] - a[1]): Array.prototype.sort is stable
InsertByCount(sorted, e) ==
    LET before == Cardinality({i \in 1..Len(sorted) : sorted[i].count >= e.count})
    IN SubSeq(sorted, 1, before) \o <<e>> \o SubSeq(sorted, before + 1, Len(sorted))

RECURSIVE SortByCount(_)
SortByCount(entries) ==
    IF entries = <<>> THEN <<>>
    ELSE InsertByCount(SortByCount(SubSeq(entries, 1, Len(entries) - 1)),
                       entries[Len(entries)])

\* for...of over entry.hashtags or entry.creators that is undefined throws
mapOccurencesThrows(data) ==
    \E i \in 1..Len(data) : data[i].type # "result"

mapOccurences(data) ==
    LET sortedHashtags == SortByCount(CountHashtags(<<>>, data))
        sortedCreators == SortByCount(CountCreators(<<>>, data))
        top5Hashtags == Slice(sortedHashtags, 0, TopN)
        top5Creators == Slice(sortedCreators, 0, TopN)
    IN << [i \in 1..Len(top5Hashtags) |->
             [tag |-> top5Hashtags[i].name, count |-> top5Hashtags[i].count]],
          [i \in 1..Len(top5Creators) |->
             [creator |-> top5Creators[i].name, count |-> top5Creators[i].count]] >>

\* JSON.stringify(compiledResults), as the sequence of its tokens
RECURSIVE JoinTokens(_)
JoinTokens(parts) ==
    IF parts = <<>> THEN <<>>
    ELSE IF Len(parts) = 1 THEN parts[1]
    ELSE parts[1] \o <<",">> \o JoinTokens(Tail(parts))

Stringify(compiled) ==
    LET tagObject(e) == <<"{", "\"tag\"", ":", "\"", e.tag, "\"", ",",
                          "\"count\"", ":", ToString(e.count), "}">>
        creatorObject(e) == <<"{", "\"creator\"", ":", "\"", e.creator, "\"", ",",
                              "\"count\"", ":", ToString(e.count), "}">>
        tagArray == <<"[">> \o JoinTokens([i \in 1..Len(compiled[1]) |->
                                              tagObject(compiled[1][i])]) \o <<"]">>
        creatorArray == <<"[">> \o JoinTokens([i \in 1..Len(compiled[2]) |->
                                                  creatorObject(compiled[2][i])]) \o <<"]">>
    IN <<"[">> \o tagArray \o <<",">> \o creatorArray \o <<"]">>

---------------------------------------------------------------------------
(* The worker behind getHashtags (apiAuth.js:30-47) is a remote function    *)
(* outside the repository.  Its answer for one batch is one object          *)
(* {hashtags: string[], creators: string[]}; the posts it reads are fixed   *)
(* here by the number that ends the URL.                                    *)

Url(i) == tiktokPrefix \o NumberToString(i)
VideoId(url) == StringToNumber(SubSeq(url, Len(tiktokPrefix) + 1, Len(url)))

PostHashtags(url) == IF VideoId(url) % 2 = 1 THEN <<"a">> ELSE <<"a", "b">>
PostCreators(url) == IF VideoId(url) % 2 = 1 THEN <<"c1">> ELSE <<"c2">>

RECURSIVE FlatHashtags(_)
FlatHashtags(urls) ==
    IF urls = <<>> THEN <<>>
    ELSE PostHashtags(urls[1].chars) \o FlatHashtags(Tail(urls))

RECURSIVE FlatCreators(_)
FlatCreators(urls) ==
    IF urls = <<>> THEN <<>>
    ELSE PostCreators(urls[1].chars) \o FlatCreators(Tail(urls))

RECURSIVE Dedup(_)
Dedup(list) ==
    IF list = <<>> THEN <<>>
    ELSE LET front == Dedup(SubSeq(list, 1, Len(list) - 1))
             last == list[Len(list)]
         IN IF \E i \in 1..Len(front) : front[i] = last THEN front
            ELSE Append(front, last)

WorkerResult(t, h, c) == [type |-> t, hashtags |-> h, creators |-> c]
NoResult == WorkerResult("none", <<>>, <<>>)

\* what the invocation for one batch can resolve with: the flat lists of the
\* batch's posts, the same lists without repetitions, or the error object of
\* a worker that raised (no hashtags, no creators)
WorkerResponses(batch) ==
    { WorkerResult("result", FlatHashtags(batch.urls), FlatCreators(batch.urls)),
      WorkerResult("result", Dedup(FlatHashtags(batch.urls)),
                             Dedup(FlatCreators(batch.urls))),
      WorkerResult("error", <<>>, <<>>) }

---------------------------------------------------------------------------
(* route.js: PUT.  The handler runs from one await to the next in one step; *)
(* the continuation that follows a settled promise runs before any other    *)
(* callback, so it belongs to the step that settles the promise.            *)

NoResponse == [status |-> 0, body |-> <<>>]
Response(body, status) == [status |-> status, body |-> body]

InFlight == [state |-> "inflight", result |-> NoResult]

Init ==
    /\ pc = "idle"
    /\ request = JUndefined
    /\ uuJson = JUndefined
    /\ batches = <<>>
    /\ calls = <<>>
    /\ compiledResults = <<>>
    /\ response = NoResponse
    /\ firstSettled = 0

\* PUT is called and suspends at await request.json()
PUT(body) ==
    /\ pc = "idle"
    /\ pc' = "reading"
    /\ request' = body
    /\ UNCHANGED <<uuJson, batches, calls, compiledResults, response, firstSettled>>

\* request.json() rejects: the catch block answers
JsonRejected ==
    /\ pc = "reading"
    /\ request.type = "invalid"
    /\ pc' = "done"
    /\ response' = Response(<<failedMessage>>, 500)
    /\ UNCHANGED <<request, uuJson, batches, calls, compiledResults, firstSettled>>

\* the handler with the batches dispatched before the content check
JsonResolvedDispatchFirst ==
    /\ pc = "reading"
    /\ request.type # "invalid"
    /\ uuJson' = request
    /\ UNCHANGED <<request, firstSettled>>
    /\ IF request.type \in {"null", "undefined"}
       THEN /\ pc' = "done"
            /\ response' = Response(<<failedMessage>>, 500)
            /\ UNCHANGED <<batches, calls, compiledResults>>
       ELSE IF ~checkKey(request)
       THEN /\ pc' = "done"
            /\ response' = Response(<<unauthorizedAccessMessage>>, 400)
            /\ UNCHANGED <<batches, calls, compiledResults>>
       ELSE IF ~validateFormatting(request)
       THEN /\ pc' = "done"
            /\ response' = Response(<<incorrectFormattingMessage>>, 400)
            /\ UNCHANGED <<batches, calls, compiledResults>>
       ELSE /\ batches' = processBatch(request)
            /\ calls' = [i \in 1..Len(batches') |-> InFlight]
            /\ IF ~validateContent(request)
               THEN /\ pc' = "done"
                    /\ response' = Response(<<faultyContentMessage>>, 400)
                    /\ UNCHANGED compiledResults
               ELSE IF Len(batches') = 0
               THEN /\ pc' = "done"
                    /\ compiledResults' = mapOccurences(<<>>)
                    /\ response' = Response(Stringify(compiledResults'), 200)
               ELSE /\ pc' = "awaiting"
                    /\ UNCHANGED <<compiledResults, response>>

\* a dispatch that issues the invocation of the first batch and waits for
\* it before any other is issued
JsonResolvedFirstOnly ==
    /\ pc = "reading"
    /\ request.type # "invalid"
    /\ uuJson' = request
    /\ UNCHANGED <<request, firstSettled>>
    /\ IF request.type \in {"null", "undefined"}
       THEN \* Object.keys(null) throws
            /\ pc' = "done"
            /\ response' = Response(<<failedMessage>>, 500)
            /\ UNCHANGED <<batches, calls, compiledResults>>
       ELSE IF ~checkKey(request)
       THEN /\ pc' = "done"
            /\ response' = Response(<<unauthorizedAccessMessage>>, 400)
            /\ UNCHANGED <<batches, calls, compiledResults>>
       ELSE IF ~validateFormatting(request)
       THEN /\ pc' = "done"
            /\ response' = Response(<<incorrectFormattingMessage>>, 400)
            /\ UNCHANGED <<batches, calls, compiledResults>>
       ELSE IF ~validateContent(request)
       THEN /\ pc' = "done"
            /\ response' = Response(<<faultyContentMessage>>, 400)
            /\ UNCHANGED <<batches, calls, compiledResults>>
       ELSE /\ batches' = processBatch(request)
            /\ calls' = [i \in 1..(IF Len(batches') = 0 THEN 0 ELSE 1) |-> InFlight]
            /\ IF Len(batches') = 0
               THEN \* Promise.all([]) is resolved already
                    /\ pc' = "done"
                    /\ compiledResults' = mapOccurences(<<>>)
                    /\ response' = Response(Stringify(compiledResults'), 200)
               ELSE /\ pc' = "awaiting"
                    /\ UNCHANGED <<compiledResults, response>>

\* route.js:27-47: request.json() resolves; the checks, processBatch and the
\* dispatch of every batch run to the await of Promise.all
JsonResolved ==
    /\ pc = "reading"
    /\ request.type # "invalid"
    /\ uuJson' = request
    /\ UNCHANGED <<request, firstSettled>>
    /\ IF request.type \in {"null", "undefined"}
       THEN \* Object.keys(null) throws
            /\ pc' = "done"
            /\ response' = Response(<<failedMessage>>, 500)
            /\ UNCHANGED <<batches, calls, compiledResults>>
       ELSE IF ~checkKey(request)
       THEN /\ pc' = "done"
            /\ response' = Response(<<unauthorizedAccessMessage>>, 400)
            /\ UNCHANGED <<batches, calls, compiledResults>>
       ELSE IF ~validateFormatting(request)
       THEN /\ pc' = "done"
            /\ response' = Response(<<incorrectFormattingMessage>>, 400)
            /\ UNCHANGED <<batches, calls, compiledResults>>
       ELSE IF ~validateContent(request)
       THEN /\ pc' = "done"
            /\ response' = Response(<<faultyContentMessage>>, 400)
            /\ UNCHANGED <<batches, calls, compiledResults>>
       ELSE /\ batches' = processBatch(request)
            /\ calls' = [i \in 1..Len(batches') |-> InFlight]
            /\ IF Len(batches') = 0
               THEN \* Promise.all([]) is resolved already
                    /\ pc' = "done"
                    /\ compiledResults' = mapOccurences(<<>>)
                    /\ response' = Response(Stringify(compiledResults'), 200)
               ELSE /\ pc' = "awaiting"
                    /\ UNCHANGED <<compiledResults, response>>

\* a join that folds the result of the invocation that settled first before
\* the others
WorkerResolveFirstSettledFirst(i, r) ==
    /\ i \in 1..Len(calls)
    /\ calls[i].state = "inflight"
    /\ r \in WorkerResponses(batches[i])
    /\ calls' = [calls EXCEPT ![i] = [state |-> "resolved", result |-> r]]
    /\ firstSettled' = IF firstSettled = 0 THEN i ELSE firstSettled
    /\ IF pc = "awaiting" /\ \A j \in 1..Len(calls') : calls'[j].state = "resolved"
       THEN LET others == SelectSeq([j \in 1..Len(calls') |-> j],
                                    LAMBDA j : j # firstSettled')
                order == <<firstSettled'>> \o others
                results == [j \in 1..Len(order) |-> calls'[order[j]].result]
            IN /\ pc' = "done"
               /\ IF mapOccurencesThrows(results)
                  THEN /\ response' = Response(<<failedMessage>>, 500)
                       /\ UNCHANGED compiledResults
                  ELSE /\ compiledResults' = mapOccurences(results)
                       /\ response' = Response(Stringify(compiledResults'), 200)
       ELSE UNCHANGED <<pc, compiledResults, response>>
    /\ UNCHANGED <<request, uuJson, batches>>

\* apiAuth.js:41-43: the invocation of batch i resolves with result r; when it
\* is the last one, Promise.all resolves and route.js:49-51 run
WorkerResolve(i, r) ==
    /\ i \in 1..Len(calls)
    /\ calls[i].state = "inflight"
    /\ r \in WorkerResponses(batches[i])
    /\ calls' = [calls EXCEPT ![i] = [state |-> "resolved", result |-> r]]
    /\ IF pc = "awaiting" /\ \A j \in 1..Len(calls') : calls'[j].state = "resolved"
       THEN LET results == [j \in 1..Len(calls') |-> calls'[j].result]
            IN /\ pc' = "done"
               /\ IF mapOccurencesThrows(results)
                  THEN /\ response' = Response(<<failedMessage>>, 500)
                       /\ UNCHANGED compiledResults
                  ELSE /\ compiledResults' = mapOccurences(results)
                       /\ response' = Response(Stringify(compiledResults'), 200)
       ELSE UNCHANGED <<pc, compiledResults, response>>
    /\ firstSettled' = IF firstSettled = 0 THEN i ELSE firstSettled
    /\ UNCHANGED <<request, uuJson, batches>>

\* a join that does not fail fast: the rejection leaves the handler waiting
WorkerRejectNoFailFast(i) ==
    /\ i \in 1..Len(calls)
    /\ calls[i].state = "inflight"
    /\ calls' = [calls EXCEPT ![i] = [state |-> "rejected", result |-> NoResult]]
    /\ firstSettled' = IF firstSettled = 0 THEN i ELSE firstSettled
    /\ UNCHANGED <<pc, request, uuJson, batches, compiledResults, response>>

\* a fail-fast abort that cancels the invocations that are in flight
WorkerRejectCancelsOthers(i) ==
    /\ i \in 1..Len(calls)
    /\ calls[i].state = "inflight"
    /\ IF pc = "awaiting"
       THEN /\ calls' = [j \in 1..Len(calls) |->
                            IF calls[j].state = "inflight"
                            THEN [state |-> "rejected", result |-> NoResult]
                            ELSE calls[j]]
            /\ pc' = "done"
            /\ response' = Response(<<failedMessage>>, 500)
       ELSE /\ calls' = [calls EXCEPT ![i] = [state |-> "rejected", result |-> NoResult]]
            /\ UNCHANGED <<pc, response>>
    /\ firstSettled' = IF firstSettled = 0 THEN i ELSE firstSettled
    /\ UNCHANGED <<request, uuJson, batches, compiledResults>>

\* apiAuth.js:39-40: the invocation of batch i rejects; compileHashtags
\* rethrows, Promise.all rejects at once and the catch block answers
WorkerReject(i) ==
    /\ i \in 1..Len(calls)
    /\ calls[i].state = "inflight"
    /\ calls' = [calls EXCEPT ![i] = [state |-> "rejected", result |-> NoResult]]
    /\ IF pc = "awaiting"
       THEN /\ pc' = "done"
            /\ response' = Response(<<failedMessage>>, 500)
       ELSE UNCHANGED <<pc, response>>
    /\ firstSettled' = IF firstSettled = 0 THEN i ELSE firstSettled
    /\ UNCHANGED <<request, uuJson, batches, compiledResults>>

---------------------------------------------------------------------------
(* The request bodies of Spec: every shape of payload the checks tell apart. *)

SeqsUpTo(S, n) == UNION {[1..k -> S] : k \in 0..n}

BadUrl == SubSeq(tiktokPrefix, 1, Len(tiktokPrefix) - 1) \o <<"1">>
ShortUrl == <<"h","t","t","p">>
WrongKey == <<"K","2">>

UrlElems == {JStr(Url(1)), JStr(Url(2)), JStr(BadUrl), JStr(ShortUrl), JNum(7)}
UrlsValues == {JArr(s) : s \in SeqsUpTo(UrlElems, MaxUrls)} \cup {JStr(Url(1)), JNull}
ApiKeyValues ==
    {JStr(expectedApiKey), JStr(WrongKey), JArr(<<JStr(expectedApiKey)>>), JNum(1)}

FieldValues(k) ==
    CASE k = "api_key" -> ApiKeyValues
      [] k = "urls"    -> UrlsValues
      [] OTHER         -> {JNum(1)}

KeySeqs ==
    {ks \in SeqsUpTo({"api_key", "urls", "extra"}, 3) :
        \A i, j \in 1..Len(ks) : i # j => ks[i] # ks[j]}

RECURSIVE FieldSeqs(_)
FieldSeqs(ks) ==
    IF Len(ks) = 0 THEN {<<>>}
    ELSE {<<Field(ks[1], v)>> \o rest : v \in FieldValues(ks[1]), rest \in FieldSeqs(Tail(ks))}

Bodies ==
    {JInvalid, JNull, JNum(5), JStr(expectedApiKey), JArr(<<JStr(expectedApiKey)>>)}
    \cup UNION {{JObj(fs) : fs \in FieldSeqs(ks)} : ks \in KeySeqs}

Next ==
    \/ \E body \in Bodies : PUT(body)
    \/ JsonRejected
    \/ JsonResolved
    \/ \E i \in 1..Len(calls) : \E r \in WorkerResponses(batches[i]) : WorkerResolve(i, r)
    \/ \E i \in 1..Len(calls) : WorkerReject(i)

Spec == Init /\ [][Next]_vars

\* the body read settles, one way or the other
BodyReadSettles == JsonRejected \/ JsonResolved

\* an invocation that is in flight settles, one way or the other: what
\* WorkerResolve and WorkerReject do to calls
InvocationSettles ==
    \E i \in 1..Len(calls) :
        /\ calls[i] = InFlight
        /\ \/ \E r \in WorkerResponses(batches[i]) :
                  calls' = [calls EXCEPT ![i] = [state |-> "resolved", result |-> r]]
           \/ calls' = [calls EXCEPT ![i] = [state |-> "rejected", result |-> NoResult]]

\* the handler where the body read settles in the end and, as long as an
\* invocation is in flight, one of them settles in the end; the
\* continuations of settled promises are run by the event loop
SpecLive ==
    /\ Spec
    /\ WF_vars(BodyReadSettles)
    /\ WF_calls(InvocationSettles)

---------------------------------------------------------------------------
(* SpecBatch: processBatch alone, on URL lists of every length up to         *)
(* MaxPartLen: one URL repeated, two URLs alternating, all URLs distinct.    *)

UrlCycle(n, m) == [i \in 1..n |-> JStr(Url(((i - 1) % m) + 1))]

ValidPayload(urls) ==
    JObj(<<Field("api_key", JStr(expectedApiKey)), Field("urls", JArr(urls))>>)

PartitionInputs ==
    {UrlCycle(n, m) : n \in 0..MaxPartLen, m \in {1, 2, MaxPartLen}}

\* route.js:44  const batches = processBatch(uuJson)
ApplyProcessBatch(urls) ==
    /\ pc = "idle"
    /\ pc' = "partitioned"
    /\ uuJson' = ValidPayload(urls)
    /\ batches' = processBatch(uuJson')
    /\ UNCHANGED <<request, calls, compiledResults, response, firstSettled>>

NextBatch == \E urls \in PartitionInputs : ApplyProcessBatch(urls)

SpecBatch == Init /\ [][NextBatch]_vars

---------------------------------------------------------------------------
(* SpecAgg: the handler on valid requests of distinct URLs, short ones (one  *)
(* post per batch) and ones longer than the fan-out (several posts per       *)
(* batch).                                                                   *)

AggLengths == (0..2) \cup ((Fanout + 1)..MaxAggLen)

AggBodies == {ValidPayload(UrlCycle(n, MaxAggLen)) : n \in AggLengths}

NextAgg ==
    \/ \E body \in AggBodies : PUT(body)
    \/ JsonResolved
    \/ \E i \in 1..Len(calls) : \E r \in WorkerResponses(batches[i]) : WorkerResolve(i, r)
    \/ \E i \in 1..Len(calls) : WorkerReject(i)

SpecAgg == Init /\ [][NextAgg]_vars

---------------------------------------------------------------------------
(* mapOccurences alone, on every sequence of at most MaxResults results    *)
(* of a pool that holds repeated tags, a repeated tag within one result,   *)
(* results without common tags, and more than TopN tags and creators.      *)

ResultPool ==
    { WorkerResult("result", <<"a">>, <<"c1">>),
      WorkerResult("result", <<"a", "b">>, <<"c2">>),
      WorkerResult("result", <<"c", "d", "e", "f", "g">>, <<"c1">>),
      WorkerResult("result", <<"h">>, <<"c3">>),
      WorkerResult("result", <<"b", "b">>, <<>>),
      WorkerResult("result", <<>>, <<"c4", "c5", "c6", "c7", "c8", "c9">>) }

MapInputs == SeqsUpTo(ResultPool, MaxResults)

ApplyMapOccurences(data) ==
    /\ pc = "idle"
    /\ pc' = "mapped"
    /\ calls' = [i \in 1..Len(data) |-> [state |-> "resolved", result |-> data[i]]]
    /\ compiledResults' = mapOccurences(data)
    /\ UNCHANGED <<request, uuJson, batches, response, firstSettled>>

NextMap == \E data \in MapInputs : ApplyMapOccurences(data)

SpecMap == Init /\ [][NextMap]_vars

---------------------------------------------------------------------------
(* Vocabulary of the claims. *)

Handled == pc \in {"awaiting", "done"}
Payload == uuJson
Urls == Get(uuJson, "urls").items
HasKey(v, k) == v.type = "object" /\ \E i \in 1..Len(v.fields) : v.fields[i].key = k
KeySet(v) == {v.fields[i].key : i \in 1..Len(v.fields)}
IsStringArray(v) ==
    v.type = "array" /\ \A i \in 1..Len(v.items) : v.items[i].type = "string"
Min(a, b) == IF a < b THEN a ELSE b
Ceiling(a, b) == IF a % b = 0 THEN a \div b ELSE (a \div b) + 1

RECURSIVE ConcatBatches(_)
ConcatBatches(bs) ==
    IF bs = <<>> THEN <<>> ELSE bs[1].urls \o ConcatBatches(Tail(bs))

Answered(message, status) == response = Response(<<message>>, status)

---------------------------------------------------------------------------
(* C1 *)

\* C1: as soon as one invocation has failed (rejected), the handler has
\* answered 500 with the generic message and no aggregate; and an answer of
\* 200 exists only when every invocation issued for the request has resolved
\* with a result.
C1_FailFast ==
    /\ (\E i \in 1..Len(calls) : calls[i].state = "rejected")
          => /\ pc = "done"
             /\ Answered(failedMessage, 500)
             /\ compiledResults = <<>>
    /\ response.status = 200
          => /\ \A i \in 1..Len(calls) :
                    calls[i].state = "resolved" /\ calls[i].result.type = "result"
             /\ response.body = Stringify(compiledResults)

\* one invocation has resolved with a result, another has failed: 500, and
\* the result of the first is discarded
C1_Witness ==
    /\ \E i, j \in 1..Len(calls) :
          /\ calls[i].state = "rejected"
          /\ calls[j].state = "resolved" /\ calls[j].result.type = "result"
    /\ Answered(failedMessage, 500)

---------------------------------------------------------------------------
(* C2, C3, C4: processBatch, under SpecBatch *)

\* C2: the batches returned by processBatch, concatenated in order, are the
\* original URL list.
C2_ConcatIsInput ==
    pc = "partitioned" => ConcatBatches(batches) = Urls

\* a list longer than the fan-out, cut into several batches of several URLs
C2_Witness ==
    /\ pc = "partitioned"
    /\ Len(Urls) > Fanout
    /\ Len(batches) > 1
    /\ \A i, j \in 1..Len(Urls) : i # j => Urls[i] # Urls[j]

NonEmptyBatches == {i \in 1..Len(batches) : Len(batches[i].urls) > 0}

\* C3 as stated: the number of non-empty batches is min(n, K).
C3_CountIsMin ==
    pc = "partitioned" => Cardinality(NonEmptyBatches) = Min(Len(Urls), Fanout)

\* What processBatch returns instead: ceil(n / ceil(n / K)) batches, and none
\* for n = 0; that is at most min(n, K), and is min(n, K) when n <= K.
BatchCountOfCode ==
    pc = "partitioned" =>
        LET n == Len(Urls)
            count == Cardinality(NonEmptyBatches)
        IN /\ n = 0 => count = 0
           /\ n > 0 => count = Ceiling(n, Ceiling(n, Fanout))
           /\ count <= Min(n, Fanout)
           /\ n <= Fanout => count = n

\* 11 URLs make 6 batches, not 10
ElevenUrlsSixBatches ==
    /\ pc = "partitioned"
    /\ Len(Urls) = Fanout + 1
    /\ Cardinality(NonEmptyBatches) = 6

\* C4: every batch has at most ceil(n / K) URLs, the sizes never increase from
\* one batch to the next, and only the last batch is smaller than the others.
C4_SizesBounded ==
    pc = "partitioned" =>
        /\ \A i \in 1..Len(batches) :
              Len(batches[i].urls) <= Ceiling(Len(Urls), Fanout)
        /\ \A i \in 1..(Len(batches) - 1) :
              /\ Len(batches[i].urls) >= Len(batches[i + 1].urls)
              /\ Len(batches[i].urls) = Len(batches[1].urls)

\* a list whose last batch is smaller than the others
C4_Witness ==
    /\ pc = "partitioned"
    /\ Len(batches) > 2
    /\ Len(batches[1].urls) > 1
    /\ Len(batches[Len(batches)].urls) < Len(batches[1].urls)

---------------------------------------------------------------------------
(* C5 .. C9: the checks of the handler, under Spec *)

\* C5: a request answered with status 400 has had no worker invocation issued.
C5_NoDispatchBefore400 ==
    response.status = 400 => Len(calls) = 0 /\ batches = <<>>

\* the last of the three checks fails, on a payload that also has a valid URL
C5_Witness ==
    /\ Answered(faultyContentMessage, 400)
    /\ \E i \in 1..Len(Urls) : StartsWith(Urls[i].chars, tiktokPrefix)

\* C6 as stated: a handled request whose api_key is not the configured key is
\* answered 400 with the authorization message, whatever the rest of it.
C6_WrongKeyRejected ==
    (Handled /\ HasKey(Payload, "api_key")
             /\ Get(Payload, "api_key") # JStr(expectedApiKey))
        => Answered(unauthorizedAccessMessage, 400)

\* C7 as stated: a handled request made of the correct api_key and of a urls
\* array of strings, one of which lacks the prefix, is answered 400 with the
\* content message.
C7_BadPrefixRejected ==
    (Handled /\ Payload.type = "object" /\ Len(Payload.fields) = 2
             /\ KeySet(Payload) = {"api_key", "urls"}
             /\ Get(Payload, "api_key") = JStr(expectedApiKey)
             /\ IsStringArray(Get(Payload, "urls"))
             /\ \E i \in 1..Len(Urls) : ~StartsWith(Urls[i].chars, tiktokPrefix))
        => Answered(faultyContentMessage, 400)

\* C8 as stated: a handled request with the correct api_key and no urls field,
\* or a urls value that is not an array of strings, is answered 400 with the
\* format message.
C8_BadFormatRejected ==
    (Handled /\ HasKey(Payload, "api_key")
             /\ Get(Payload, "api_key") = JStr(expectedApiKey)
             /\ (~HasKey(Payload, "urls") \/ ~IsStringArray(Get(Payload, "urls"))))
        => Answered(incorrectFormattingMessage, 400)

\* C9 as stated, for the payloads made of the two fields alone: a handled
\* request with the configured api_key and a non-empty urls array of strings
\* that all have the prefix is not answered 400, in whichever order its
\* fields come.
C9_ValidAccepted ==
    (Handled /\ Payload.type = "object" /\ Len(Payload.fields) = 2
             /\ KeySet(Payload) = {"api_key", "urls"}
             /\ Get(Payload, "api_key") = JStr(expectedApiKey)
             /\ IsStringArray(Get(Payload, "urls"))
             /\ Len(Urls) > 0
             /\ \A i \in 1..Len(Urls) : StartsWith(Urls[i].chars, tiktokPrefix))
        => response.status # 400

---------------------------------------------------------------------------
(* C10: the counts of a successful request, under SpecAgg *)

PostsWithTag(t) ==
    {u \in {Urls[i] : i \in 1..Len(Urls)} :
        \E k \in 1..Len(PostHashtags(u.chars)) : PostHashtags(u.chars)[k] = t}
PostsWithCreator(c) ==
    {u \in {Urls[i] : i \in 1..Len(Urls)} :
        \E k \in 1..Len(PostCreators(u.chars)) : PostCreators(u.chars)[k] = c}

\* C10 as stated: in a 200 answer, the count of every tag and of every author
\* is the number of distinct posts of the request in which it appears.
C10_CountsArePosts ==
    response.status = 200 =>
        /\ \A i \in 1..Len(compiledResults[1]) :
              compiledResults[1][i].count
                  = Cardinality(PostsWithTag(compiledResults[1][i].tag))
        /\ \A i \in 1..Len(compiledResults[2]) :
              compiledResults[2][i].count
                  = Cardinality(PostsWithCreator(compiledResults[2][i].creator))


---------------------------------------------------------------------------
(* Vocabulary of the claims about mapOccurences. *)

\* the results given to mapOccurences, in the order they are folded
Data == [i \in 1..Len(calls) |-> calls[i].result]
TagsOut == compiledResults[1]
CreatorsOut == compiledResults[2]

Elems(list) == {list[i] : i \in 1..Len(list)}
Occurrences(x, list) == Cardinality({i \in 1..Len(list) : list[i] = x})
FirstSeen(x, list) == CHOOSE i \in 1..Len(list) : list[i] = x /\ \A j \in 1..(i - 1) : list[j] # x

RECURSIVE Flatten(_)
Flatten(lists) == IF lists = <<>> THEN <<>> ELSE lists[1] \o Flatten(Tail(lists))

AllHashtags(data) == Flatten([i \in 1..Len(data) |-> data[i].hashtags])
AllCreators(data) == Flatten([i \in 1..Len(data) |-> data[i].creators])

RECURSIVE SumOfCounts(_)
SumOfCounts(entries) ==
    IF entries = <<>> THEN 0 ELSE entries[1].count + SumOfCounts(Tail(entries))

PairwiseDisjointTags(data) ==
    \A i, j \in 1..Len(data) :
        i # j => Elems(data[i].hashtags) \cap Elems(data[j].hashtags) = {}

---------------------------------------------------------------------------
\* C11, as stated: when no tag is in two results, the tag counts of the
\* output of mapOccurences add up to the number of (post, tag) pairs, that
\* is, of elements of the hashtags arrays of the results.
C11_SumIsPairs ==
    (pc = "mapped" /\ PairwiseDisjointTags(Data)) =>
        SumOfCounts(TagsOut) = Len(AllHashtags(Data))

\* C11, amended: when no tag is in two results, the tag counts of the output
\* add up to the number of elements of the hashtags arrays provided the
\* results hold at most TopN distinct tags; with more distinct tags the
\* output keeps TopN of them and the sum is less than that number.
C11_SumIsPairsUpToTopN ==
    (pc = "mapped" /\ PairwiseDisjointTags(Data)) =>
        LET distinct == Cardinality(Elems(AllHashtags(Data)))
        IN /\ distinct <= TopN => SumOfCounts(TagsOut) = Len(AllHashtags(Data))
           /\ distinct > TopN => SumOfCounts(TagsOut) < Len(AllHashtags(Data))

C11_Witness ==
    /\ pc = "mapped"
    /\ PairwiseDisjointTags(Data)
    /\ Len(Data) >= 2
    /\ Cardinality(Elems(AllHashtags(Data))) \in 2..TopN
    /\ SumOfCounts(TagsOut) = Len(AllHashtags(Data))
    /\ \E i \in 1..Len(TagsOut) : TagsOut[i].count > 1

---------------------------------------------------------------------------
\* the same results folded in another order
Permuted(data, p) == [i \in 1..Len(data) |-> data[p[i]]]
TagPairs(out) == {<<out[i].tag, out[i].count>> : i \in 1..Len(out)}
CreatorPairs(out) == {<<out[i].creator, out[i].count>> : i \in 1..Len(out)}
CountsOf(out) == [i \in 1..Len(out) |-> out[i].count]
\* the pairs of a set whose count is above the count of the last entry
AboveLast(pairs, out) == {e \in pairs : e[2] > out[Len(out)].count}

\* C12, as stated: for every permutation of the results given to
\* mapOccurences, the output holds the same (tag, count) pairs and the same
\* (creator, count) pairs; only their order may differ.
C12_SamePairs ==
    pc = "mapped" =>
        \A p \in Permutations(1..Len(Data)) :
            LET other == mapOccurences(Permuted(Data, p))
            IN /\ TagPairs(other[1]) = TagPairs(TagsOut)
               /\ CreatorPairs(other[2]) = CreatorPairs(CreatorsOut)

\* C12, amended: for every permutation of the results, the output holds the
\* same counts at the same positions; it holds the same pairs when the
\* results hold at most TopN distinct tags (creators); with more, a pair of
\* one output that is missing in the other has the count of the last entry,
\* that is, it is tied at the cut and the order of the input decides.
C12_SameCountsUpToTiesAtCut ==
    pc = "mapped" =>
        \A p \in Permutations(1..Len(Data)) :
            LET other == mapOccurences(Permuted(Data, p))
            IN /\ CountsOf(other[1]) = CountsOf(TagsOut)
               /\ CountsOf(other[2]) = CountsOf(CreatorsOut)
               /\ Cardinality(Elems(AllHashtags(Data))) <= TopN =>
                      TagPairs(other[1]) = TagPairs(TagsOut)
               /\ Cardinality(Elems(AllCreators(Data))) <= TopN =>
                      CreatorPairs(other[2]) = CreatorPairs(CreatorsOut)
               /\ AboveLast(TagPairs(other[1]), TagsOut)
                      = AboveLast(TagPairs(TagsOut), TagsOut)
               /\ AboveLast(CreatorPairs(other[2]), CreatorsOut)
                      = AboveLast(CreatorPairs(CreatorsOut), CreatorsOut)

\* three different results with a common tag, folded: some permutation of
\* them puts the entries of equal count in another order
C12_Witness ==
    /\ pc = "mapped"
    /\ Len(Data) = 3
    /\ Cardinality(Elems(Data)) = 3
    /\ \E i \in 1..Len(TagsOut) : TagsOut[i].count >= 2
    /\ Cardinality(Elems(AllHashtags(Data))) <= TopN
    /\ \E p \in Permutations(1..Len(Data)) :
           /\ mapOccurences(Permuted(Data, p)) # compiledResults
           /\ TagPairs(mapOccurences(Permuted(Data, p))[1]) = TagPairs(TagsOut)

---------------------------------------------------------------------------
\* the entries of an array returned by mapOccurences, as name and count
TagEntries == [i \in 1..Len(TagsOut) |-> [name |-> TagsOut[i].tag, count |-> TagsOut[i].count]]
CreatorEntries ==
    [i \in 1..Len(CreatorsOut) |-> [name |-> CreatorsOut[i].creator, count |-> CreatorsOut[i].count]]
NamesOf(entries) == {entries[i].name : i \in 1..Len(entries)}

\* sorted by count, at most TopN entries, nothing left out that has more
\* occurrences in all than an entry has
RankedTopN(entries, all) ==
    /\ \A i, j \in 1..Len(entries) : i < j => entries[i].count >= entries[j].count
    /\ Len(entries) <= TopN
    /\ \A x \in Elems(all) \ NamesOf(entries) :
           \A i \in 1..Len(entries) : Occurrences(x, all) <= entries[i].count

\* C13: each of the two arrays returned by mapOccurences is sorted by count
\* in non-increasing order and has at most 5 entries, and no tag (creator)
\* left out of it has a count greater than the count of an entry of it.
C13_RankedTopN ==
    pc = "mapped" =>
        /\ RankedTopN(TagEntries, AllHashtags(Data))
        /\ RankedTopN(CreatorEntries, AllCreators(Data))

\* more than TopN distinct tags: the tag that was seen first has fewer
\* occurrences than TopN others and is left out
C13_Witness ==
    /\ pc = "mapped"
    /\ Len(TagsOut) = TopN
    /\ \E x \in Elems(AllHashtags(Data)) \ NamesOf(TagEntries) :
           /\ FirstSeen(x, AllHashtags(Data)) = 1
           /\ Occurrences(x, AllHashtags(Data)) < TagsOut[TopN].count

---------------------------------------------------------------------------
\* entries of equal count are in the order in which their names were first
\* seen, and a name left out with the count of an entry was seen after it
TiesInFirstSeenOrder(entries, all) ==
    /\ \A i, j \in 1..Len(entries) :
           (i < j /\ entries[i].count = entries[j].count) =>
               FirstSeen(entries[i].name, all) < FirstSeen(entries[j].name, all)
    /\ \A x \in Elems(all) \ NamesOf(entries) :
           \A i \in 1..Len(entries) :
               Occurrences(x, all) = entries[i].count =>
                   FirstSeen(entries[i].name, all) < FirstSeen(x, all)

\* C18: in each array returned by mapOccurences, of two tags (creators) of
\* equal count the one met first while folding the results in order comes
\* first, and of two of equal count of which one is cut off, the one met
\* first is the one that is kept.
C18_TiesInFirstSeenOrder ==
    pc = "mapped" =>
        /\ TiesInFirstSeenOrder(TagEntries, AllHashtags(Data))
        /\ TiesInFirstSeenOrder(CreatorEntries, AllCreators(Data))

\* a tag seen late has the highest count and is moved to the front, the
\* others are tied, and a tag tied with the last entry is cut off
C18_Witness ==
    /\ pc = "mapped"
    /\ Len(TagsOut) = TopN
    /\ FirstSeen(TagsOut[1].tag, AllHashtags(Data)) > TopN
    /\ TagsOut[1].count > TagsOut[2].count
    /\ TagsOut[2].count = TagsOut[TopN].count
    /\ \E x \in Elems(AllHashtags(Data)) \ NamesOf(TagEntries) :
           Occurrences(x, AllHashtags(Data)) = TagsOut[TopN].count

---------------------------------------------------------------------------
EmptyRanking == << <<>>, <<>> >>

\* a payload made of the configured api_key and of an empty urls array
EmptyUrlsPayload ==
    /\ Payload.type = "object" /\ Len(Payload.fields) = 2
    /\ KeySet(Payload) = {"api_key", "urls"}
    /\ Get(Payload, "api_key") = JStr(expectedApiKey)
    /\ Get(Payload, "urls") = JArr(<<>>)

DegenerateSuccess ==
    /\ batches = <<>>
    /\ calls = <<>>
    /\ compiledResults = EmptyRanking
    /\ response = Response(Stringify(EmptyRanking), 200)

\* C14 as stated: a handled request made of the correct api_key and of an
\* empty urls array, in whichever order its fields come, has zero batches
\* and no worker invocation and is answered 200 with an empty tag ranking
\* and an empty creator ranking.
C14_EmptyUrlsSucceed ==
    (Handled /\ EmptyUrlsPayload) => (pc = "done" /\ DegenerateSuccess)

\* what holds of the code: the same with api_key as the first field
EmptyUrlsInOrderSucceed ==
    (Handled /\ EmptyUrlsPayload /\ ObjectKeys(Payload)[1] = "api_key")
        => (pc = "done" /\ DegenerateSuccess)

EmptyUrlsInOrderReached ==
    Handled /\ EmptyUrlsPayload /\ ObjectKeys(Payload)[1] = "api_key"

---------------------------------------------------------------------------
\* the results of the invocations, the one of a given invocation first
FoldedFrom(first) ==
    LET others == SelectSeq([j \in 1..Len(calls) |-> j], LAMBDA j : j # first)
        order == <<first>> \o others
    IN [j \in 1..Len(order) |-> calls[order[j]].result]

\* C15: when every invocation of a request has resolved with a result, the
\* body of the response is the rankings of the results folded in the order
\* of the batches, whichever invocation settled first: the body depends on
\* the results alone, never on the order of the completions.
C15_FoldedInBatchOrder ==
    (pc = "done" /\ batches # <<>> /\ response.status = 200) =>
        /\ \A i \in 1..Len(calls) : calls[i].state = "resolved"
        /\ compiledResults = mapOccurences(Data)
        /\ response.body = Stringify(mapOccurences(Data))

\* a success whose last batch settled first, and whose body would differ
\* had the results been folded from the first completion on
C15_Witness ==
    /\ pc = "done" /\ response.status = 200
    /\ Len(calls) >= 2
    /\ firstSettled = Len(calls)
    /\ Stringify(mapOccurences(FoldedFrom(firstSettled))) # response.body

---------------------------------------------------------------------------
AllInFlight(cs) == \A i \in 1..Len(cs) : cs[i] = InFlight

\* one step of the handler, as C16 has it
DispatchThenJoin ==
    \* invocations are issued in the step that leaves the body read, one
    \* for each batch, before any of them has settled
    /\ calls' # calls /\ Len(calls') # Len(calls) =>
           /\ pc = "reading" /\ calls = <<>> /\ firstSettled = 0
           /\ Len(calls') = Len(batches') /\ AllInFlight(calls')
    \* the handler starts to wait once, with every invocation issued
    /\ pc # "awaiting" /\ pc' = "awaiting" =>
           /\ pc = "reading"
           /\ Len(calls') = Len(batches') /\ Len(calls') > 0 /\ AllInFlight(calls')
    \* and from the join it goes to its response only
    /\ pc = "awaiting" => pc' \in {"awaiting", "done"}
    \* no batch and no invocation is added or dropped afterwards
    /\ pc \in {"awaiting", "done"} =>
           batches' = batches /\ Len(calls') = Len(calls)

\* C16: for every validated request the worker is invoked exactly once for
\* each batch, all invocations are issued in the step that brings the
\* handler to the join, none is issued after another has settled, and the
\* handler waits once, at the join.
C16_DispatchThenJoin ==
    /\ [](pc = "awaiting" => Len(calls) = Len(batches))
    /\ []((pc = "done" /\ response.status = 200) => Len(calls) = Len(batches))
    /\ [][DispatchThenJoin]_vars

\* the handler waits at the join of two invocations, one of which has
\* settled while the other, issued before, is in flight
C16_Witness ==
    /\ pc = "awaiting"
    /\ Len(calls) = 2 /\ Len(batches) = 2
    /\ firstSettled # 0
    /\ \E i \in 1..Len(calls) : calls[i].state = "inflight"

---------------------------------------------------------------------------
Settled(c) == c.state \in {"resolved", "rejected"}

\* one step of the program, as C17 has it
NoCancellation ==
    \* the response, once produced, is neither changed nor followed by another
    /\ response # NoResponse => (response' = response /\ pc' = "done")
    /\ Len(calls) > 0 => Len(calls') = Len(calls)
    \* a step settles at most one invocation and leaves every other one as
    \* it is: in flight if it was, the step of the abort included
    /\ \A i, j \in 1..Len(calls) :
           (i # j /\ calls'[i] # calls[i]) => calls'[j] = calls[j]
    /\ \A i \in 1..Len(calls) :
           calls'[i] # calls[i] => (calls[i] = InFlight /\ Settled(calls'[i]))

\* C17: when an invocation fails and the handler answers 500, the other
\* invocations issued for the request are left in flight, each of them can
\* still resolve or reject, and when it does the response stays as it is.
C17_NoCancellation ==
    /\ [][NoCancellation]_vars
    /\ [](\A i \in 1..Len(calls) :
              (pc = "done" /\ calls[i] = InFlight) =>
                  /\ ENABLED WorkerReject(i)
                  /\ ENABLED (\E r \in WorkerResponses(batches[i]) : WorkerResolve(i, r)))

\* the invocation that settled first failed, which made the 500 response,
\* and another invocation has resolved since
C17_Witness ==
    /\ pc = "done" /\ response = Response(<<failedMessage>>, 500)
    /\ Len(calls) >= 2
    /\ firstSettled # 0 /\ calls[firstSettled].state = "rejected"
    /\ \E j \in 1..Len(calls) : calls[j].state = "resolved"

---------------------------------------------------------------------------
\* C20: for every URL list, processBatch returns at most 10 batches and no
\* empty batch, so that a request, which has one invocation for each batch,
\* has at most 10 invocations and none for an empty URL list.
C20_AtMostTenNoneEmpty ==
    pc = "partitioned" =>
        /\ Len(batches) <= Fanout
        /\ \A i \in 1..Len(batches) : Len(batches[i].urls) > 0

\* more URLs than 10: 10 batches, the last one shorter than the others
C20_Witness ==
    /\ pc = "partitioned"
    /\ Len(Urls) > Fanout
    /\ Len(batches) = Fanout
    /\ Len(batches[Fanout].urls) < Len(batches[1].urls)

---------------------------------------------------------------------------
IsObjectPayload == request.type = "object"
ParseFailed == request.type = "invalid"

\* C19 as stated, its clause on payloads that are not objects: a request
\* whose body parses to a value that is not an object ends in the 500
\* response.
C19_NonObjectAnswered500 ==
    (pc = "done" /\ ~ParseFailed /\ ~IsObjectPayload) =>
        response = Response(<<failedMessage>>, 500)

\* C19, amended: every call of the handler whose body read and invocations
\* settle produces a response in the end, exactly one, of status 200, 400
\* or 500; a failing body parse, the payload null and a failed invocation
\* end in the 500 response, while a payload that is a number, a string or
\* an array is answered 400 with the authorization message.
C19_OneResponse ==
    /\ (pc = "reading") ~> (pc = "done")
    /\ [](pc = "done" <=> response # NoResponse)
    /\ [](pc = "done" => response.status \in {200, 400, 500})
    /\ [][response # NoResponse => response' = response]_vars
    /\ []((pc = "done" /\ (ParseFailed \/ request.type = "null")) =>
              response = Response(<<failedMessage>>, 500))
    /\ []((pc = "done" /\ \E i \in 1..Len(calls) : calls[i].state = "rejected") =>
              response = Response(<<failedMessage>>, 500))
    /\ []((pc = "done" /\ request.type \in {"number", "string", "array"}) =>
              response = Response(<<unauthorizedAccessMessage>>, 400))

\* a request of two batches answered 500 on a failed invocation, with both
\* invocations settled
C19_Witness ==
    /\ pc = "done" /\ response = Response(<<failedMessage>>, 500)
    /\ Len(calls) = 2
    /\ \A i \in 1..Len(calls) : Settled(calls[i])
    /\ \E i \in 1..Len(calls) : calls[i].state = "rejected"

===========================================================================
